---- MODULE Spec2Model ----
(***************************************************************************)
(* One cycle of process_missing_episodes (src/src/missing.py), run         *)
(* repeatedly against a file-backed processed-ID store.                    *)
(*                                                                         *)
(* Series ids are 1 and 2; the id 0 stands for every falsy id (0, None,    *)
(* key absent), which `if not series_id` treats alike.  A monitored flag   *)
(* is "True", "False" or "None" (key absent / null): `is True` accepts     *)
(* only the first.  An airDateUtc value is a record: kind "None" (absent   *)
(* or null), "empty" (the empty string), "junk" (a string fromisoformat    *)
(* rejects) or "iso" (a timestamp of calendar day `day` written with the   *)
(* suffix `tz`, "Z" or "+00:00").                                          *)
(***************************************************************************)
EXTENDS Integers, Sequences, FiniteSets, TLC

\* ---------------------------------------------------------------- bounds
MaxShows == 2
MaxQuota == 2
MaxDay == 2

\* The number of lines truncate_processed_list retains where nothing else
\* is said.
TruncateCap == 1

\* ------------------------------------------------------------ value sets
Flags == {"True", "False", "None"}
Days == 1..MaxDay

\* The days on which the cycles run: the eve of day MaxDay and day MaxDay.
Clock == {MaxDay - 1, MaxDay}

NoDate == [kind |-> "None", day |-> 0, tz |-> ""]
EmptyDate == [kind |-> "empty", day |-> 0, tz |-> ""]
JunkDate == [kind |-> "junk", day |-> 0, tz |-> ""]
IsoDate(d, z) == [kind |-> "iso", day |-> d, tz |-> z]

Episode(i, m, a) == [id |-> i, monitored |-> m, airDateUtc |-> a]

\* The missingEpisodes lists of the series the API reports: one that is
\* always searchable, one whose monitored episodes air on day MaxDay and
\* later, one without a monitored episode.
Aired == << Episode(10, "True", NoDate) >>
Upcoming ==
  << Episode(11, "False", IsoDate(1, "Z")),
     Episode(12, "True", IsoDate(MaxDay, "Z")),
     Episode(13, "True", IsoDate(MaxDay + 1, "+00:00")) >>
Unwanted == << Episode(14, "False", JunkDate) >>

\* The series records of get_series_with_missing_episodes: series 1 and 2
\* in the shapes the cycle tells apart, and a record without an id.
Series ==
  { [id |-> 1, monitored |-> "True", missingEpisodes |-> Aired],
    [id |-> 1, monitored |-> "True", missingEpisodes |-> Upcoming],
    [id |-> 1, monitored |-> "True", missingEpisodes |-> Unwanted],
    [id |-> 1, monitored |-> "False", missingEpisodes |-> Aired],
    [id |-> 2, monitored |-> "True", missingEpisodes |-> Aired],
    [id |-> 2, monitored |-> "True", missingEpisodes |-> Upcoming],
    [id |-> 2, monitored |-> "None", missingEpisodes |-> Aired],
    [id |-> 0, monitored |-> "True", missingEpisodes |-> Aired] }

RECURSIVE SeqsUpTo(_, _)
SeqsUpTo(S, n) ==
  IF n = 0 THEN { <<>> }
  ELSE LET shorter == SeqsUpTo(S, n - 1)
       IN  shorter \cup { Append(s, x) : s \in { t \in shorter : Len(t) = n - 1 }, x \in S }

Range(s) == { s[i] : i \in 1..Len(s) }

\* ----------------------------------------------------------------- state
VARIABLES
  HUNT_MISSING_SHOWS, MONITORED_ONLY, RANDOM_MISSING,
  SKIP_FUTURE_EPISODES, SKIP_SERIES_REFRESH,
  upstream,                  \* what the Sonarr API holds
  store,                     \* lines of PROCESSED_MISSING_FILE
  retention,                 \* lines truncate_processed_list retains
  pc,                        \* position in process_missing_episodes
  shows_with_missing, processed_missing_ids, shows_processed, processing_done,
  current_date, idx, monitored_missing_episodes,
  result,                    \* the value the last cycle returned
  call,                      \* the collaborator call the latest step made
  calls                      \* calls of the current cycle, counted by kind

config == << HUNT_MISSING_SHOWS, MONITORED_ONLY, RANDOM_MISSING,
             SKIP_FUTURE_EPISODES, SKIP_SERIES_REFRESH, retention >>
locals == << shows_with_missing, processed_missing_ids, shows_processed,
             processing_done, current_date, idx, monitored_missing_episodes >>
vars == << config, upstream, store, pc, locals, result, call, calls >>

\* A call of a collaborator: which one, for which series, with which
\* episode ids, and whether it answered success.
Call(op, id, ok, eps) == [op |-> op, id |-> id, ok |-> ok, eps |-> eps]
NoCall == Call("none", 0, TRUE, <<>>)

Kinds == {"load", "refresh_ok", "refresh_failed", "search_ok", "search_failed",
          "save", "truncate"}
NoCalls == [k \in Kinds |-> 0]
Count(k) == [calls EXCEPT ![k] = @ + 1]

\* ------------------------------------------------- processed-ID store
\* state.load_processed_ids: the set of the ids the file holds.
load_processed_ids(file) == Range(file)

\* state.save_processed_id: appends one line to the file.
save_processed_id(file, id) == Append(file, id)

\* state.truncate_processed_list: keeps the newest lines, as many as the
\* state module is set to retain.
truncate_processed_list(file) ==
  IF Len(file) > retention
  THEN SubSeq(file, Len(file) - retention + 1, Len(file))
  ELSE file

\* ----------------------------------------------------- pure helpers
\* A test that lets a missing flag pass.
IsNotFalse(flag) == flag # "False"

\* line 55: [s for s in shows_with_missing if s.get("monitored") is True]
IsTrue(flag) == flag = "True"

\* A monitored-only filter that drops nothing.
MonitoredShowsUnfiltered(shows) == shows

\* lines 53-55
MonitoredShows(shows) == SelectSeq(shows, LAMBDA s : IsTrue(s.monitored))

\* lines 97-100: [ep for ep in missing_episodes if ep.get("monitored") is True]
MonitoredEpisodes(eps) == SelectSeq(eps, LAMBDA ep : IsTrue(ep.monitored))

\* line 116: `not air_date_str` holds of None and of the empty string.
Falsy(a) == a.kind \in {"None", "empty"}

\* line 122: air_date_str.replace('Z', '+00:00')
ReplaceZ(a) == IF a.kind = "iso" /\ a.tz = "Z" THEN [a EXCEPT !.tz = "+00:00"] ELSE a

\* line 122: datetime.fromisoformat(...).date(); ok = FALSE is the ValueError.
FromIsoFormatDate(a) ==
  IF a.kind = "iso" /\ a.tz = "+00:00"
  THEN [ok |-> TRUE, date |-> a.day]
  ELSE [ok |-> FALSE, date |-> 0]

\* A comparison that drops the episodes airing today.
StrictlyPast(air_date, today) == air_date < today

\* line 123: air_date <= current_date
NotFuture(air_date, today) == air_date <= today

\* lines 112-129: the body of the loop over monitored_missing_episodes.
KeepEpisode(ep, today) ==
  IF Falsy(ep.airDateUtc) THEN TRUE
  ELSE LET parsed == FromIsoFormatDate(ReplaceZ(ep.airDateUtc))
       IN  IF parsed.ok THEN NotFuture(parsed.date, today) ELSE TRUE

\* lines 109-134: current_or_past_episodes, built by appending in order.
RECURSIVE CurrentOrPast(_, _, _)
CurrentOrPast(eps, today, acc) ==
  IF eps = <<>> THEN acc
  ELSE CurrentOrPast(Tail(eps), today,
                     IF KeepEpisode(Head(eps), today) THEN Append(acc, Head(eps)) ELSE acc)

\* A filter that forgets the air dates.
FilterEpisodesMonitoredOnly(show, skipFuture, today) == MonitoredEpisodes(show.missingEpisodes)

\* lines 96-138: the episodes of a show that are searched this cycle.
FilterEpisodes(show, skipFuture, today) ==
  LET monitored == MonitoredEpisodes(show.missingEpisodes)
  IN  IF skipFuture /\ monitored # <<>> THEN CurrentOrPast(monitored, today, <<>>)
      ELSE monitored

\* A search for the first episode only.
EpisodeIdsFirst(eps) == << eps[1].id >>

\* line 154: [ep["id"] for ep in monitored_missing_episodes]
EpisodeIds(eps) == [i \in 1..Len(eps) |-> eps[i].id]

\* line 71: random.shuffle yields any permutation of the list.
Shuffles(s) ==
  { [i \in 1..Len(s) |-> s[p[i]]] :
      p \in { f \in [1..Len(s) -> 1..Len(s)] : \A i, j \in 1..Len(s) : f[i] = f[j] => i = j } }

\* ------------------------------------------------------------------ Init
Quotas == (0 - 1)..MaxQuota

InitLocals ==
  /\ shows_with_missing = <<>>
  /\ processed_missing_ids = {}
  /\ shows_processed = 0
  /\ processing_done = FALSE
  /\ current_date = MaxDay
  /\ idx = 0
  /\ monitored_missing_episodes = <<>>

Init ==
  /\ HUNT_MISSING_SHOWS \in Quotas
  /\ MONITORED_ONLY \in BOOLEAN
  /\ RANDOM_MISSING \in BOOLEAN
  /\ SKIP_FUTURE_EPISODES \in BOOLEAN
  /\ SKIP_SERIES_REFRESH \in BOOLEAN
  /\ upstream \in SeqsUpTo(Series, MaxShows)
  /\ store = <<>>
  /\ retention = TruncateCap
  /\ pc = "idle"
  /\ InitLocals
  /\ result = FALSE
  /\ call = NoCall
  /\ calls = NoCalls

\* --------------------------------------------------------------- actions
\* A call of process_missing_episodes starts with fresh locals.
Called ==
  /\ pc \in {"idle", "returned"}
  /\ UNCHANGED << config, upstream >>

Return(value) ==
  /\ pc' = "returned"
  /\ result' = value

ResetLocals ==
  /\ shows_with_missing' = <<>>
  /\ processed_missing_ids' = {}
  /\ shows_processed' = 0
  /\ processing_done' = FALSE
  /\ current_date' = MaxDay
  /\ idx' = 0
  /\ monitored_missing_episodes' = <<>>

\* line 40
QuotaDisabled == HUNT_MISSING_SHOWS <= 0

\* A quota test that is off by one.
QuotaExceeded == shows_processed > HUNT_MISSING_SHOWS

\* line 79
QuotaReached == shows_processed >= HUNT_MISSING_SHOWS

\* line 45: the API answers with its series list, or with nothing on failure.
Fetched == { upstream, <<>> }

\* A disabled cycle that reports work done.
ReturnQuotaDisabledTrue ==
  /\ pc \in {"idle", "returned"}
  /\ UNCHANGED << config, upstream >>
  /\ QuotaDisabled
  /\ ResetLocals
  /\ call' = NoCall
  /\ calls' = NoCalls
  /\ Return(TRUE)
  /\ UNCHANGED store

\* lines 40-42
ReturnQuotaDisabled ==
  /\ Called
  /\ QuotaDisabled
  /\ ResetLocals
  /\ call' = NoCall
  /\ calls' = NoCalls
  /\ Return(FALSE)
  /\ UNCHANGED store

\* lines 45-48
ReturnNoShows ==
  /\ Called
  /\ ~QuotaDisabled
  /\ \E fetched \in Fetched : fetched = <<>>
  /\ ResetLocals
  /\ call' = NoCall
  /\ calls' = NoCalls
  /\ Return(FALSE)
  /\ UNCHANGED store

\* lines 45-61
ReturnNoMonitored ==
  /\ Called
  /\ ~QuotaDisabled
  /\ \E fetched \in Fetched :
       /\ fetched # <<>>
       /\ MONITORED_ONLY
       /\ MonitoredShows(fetched) = <<>>
  /\ ResetLocals
  /\ call' = NoCall
  /\ calls' = NoCalls
  /\ Return(FALSE)
  /\ UNCHANGED store

\* A cycle that shuffles whatever RANDOM_MISSING says.
EnterLoopShuffled ==
  /\ Called
  /\ ~QuotaDisabled
  /\ \E fetched \in Fetched :
       LET shows == IF MONITORED_ONLY THEN MonitoredShows(fetched) ELSE fetched
       IN  /\ fetched # <<>>
           /\ shows # <<>>
           /\ shows_with_missing' \in Shuffles(shows)
  /\ processed_missing_ids' = load_processed_ids(store)
  /\ shows_processed' = 0
  /\ processing_done' = FALSE
  /\ current_date' \in Clock
  /\ idx' = 0
  /\ monitored_missing_episodes' = <<>>
  /\ call' = Call("load", 0, TRUE, <<>>)
  /\ calls' = [NoCalls EXCEPT !["load"] = 1]
  /\ pc' = "loop"
  /\ UNCHANGED << store, result >>

\* lines 45-76: fetch, filter, load, shuffle, read the clock.
EnterLoop ==
  /\ Called
  /\ ~QuotaDisabled
  /\ \E fetched \in Fetched :
       LET shows == IF MONITORED_ONLY THEN MonitoredShows(fetched) ELSE fetched
       IN  /\ fetched # <<>>
           /\ shows # <<>>
           /\ shows_with_missing' \in (IF RANDOM_MISSING THEN Shuffles(shows) ELSE {shows})
  /\ processed_missing_ids' = load_processed_ids(store)
  /\ shows_processed' = 0
  /\ processing_done' = FALSE
  /\ current_date' \in Clock
  /\ idx' = 0
  /\ monitored_missing_episodes' = <<>>
  /\ call' = Call("load", 0, TRUE, <<>>)
  /\ calls' = [NoCalls EXCEPT !["load"] = 1]
  /\ pc' = "loop"
  /\ UNCHANGED << store, result >>

\* lines 78-80: the for statement takes the next show unless the quota is met.
NextShowRevisit ==
  /\ pc = "loop"
  /\ idx < Len(shows_with_missing)
  /\ ~QuotaReached
  /\ idx' = IF idx = 0 THEN 1 ELSE idx

NextShow ==
  /\ pc = "loop"
  /\ idx < Len(shows_with_missing)
  /\ ~QuotaReached
  /\ idx' = idx + 1

show == shows_with_missing[idx]
series_id == show.id

Continue ==
  /\ pc' = "loop"
  /\ UNCHANGED << config, upstream, store, result, shows_with_missing,
                  processed_missing_ids, current_date >>

\* lines 82-84
SkipNoId ==
  /\ NextShow
  /\ shows_with_missing[idx'].id = 0
  /\ Continue
  /\ call' = NoCall
  /\ UNCHANGED << shows_processed, processing_done, monitored_missing_episodes, calls >>

\* A skip of a processed series that uses up quota.
SkipProcessedCounted ==
  /\ NextShow
  /\ shows_with_missing[idx'].id # 0
  /\ shows_with_missing[idx'].id \in processed_missing_ids
  /\ Continue
  /\ call' = NoCall
  /\ shows_processed' = shows_processed + 1
  /\ UNCHANGED << processing_done, monitored_missing_episodes, calls >>

\* lines 86-88
SkipProcessed ==
  /\ NextShow
  /\ shows_with_missing[idx'].id # 0
  /\ shows_with_missing[idx'].id \in processed_missing_ids
  /\ Continue
  /\ call' = NoCall
  /\ UNCHANGED << shows_processed, processing_done, monitored_missing_episodes, calls >>

\* A loop that does not consult the processed set.
CandidateUnchecked ==
  /\ NextShow
  /\ shows_with_missing[idx'].id # 0

\* lines 82-88: the show has an id that is not processed yet.
Candidate ==
  /\ NextShow
  /\ shows_with_missing[idx'].id # 0
  /\ shows_with_missing[idx'].id \notin processed_missing_ids

\* lines 96-104
SkipNoMonitoredEpisodes ==
  /\ Candidate
  /\ MonitoredEpisodes(shows_with_missing[idx'].missingEpisodes) = <<>>
  /\ monitored_missing_episodes' = <<>>
  /\ Continue
  /\ call' = NoCall
  /\ UNCHANGED << shows_processed, processing_done, calls >>

\* lines 106-138
SkipAllFuture ==
  /\ Candidate
  /\ MonitoredEpisodes(shows_with_missing[idx'].missingEpisodes) # <<>>
  /\ SKIP_FUTURE_EPISODES
  /\ FilterEpisodes(shows_with_missing[idx'], TRUE, current_date) = <<>>
  /\ monitored_missing_episodes' = <<>>
  /\ Continue
  /\ call' = NoCall
  /\ UNCHANGED << shows_processed, processing_done, calls >>

\* A selection that never refreshes.
SelectShowNoRefresh ==
  /\ Candidate
  /\ monitored_missing_episodes' =
       FilterEpisodes(shows_with_missing[idx'], SKIP_FUTURE_EPISODES, current_date)
  /\ monitored_missing_episodes' # <<>>
  /\ pc' = "search"
  /\ call' = NoCall
  /\ UNCHANGED << config, upstream, store, result, shows_with_missing,
                  processed_missing_ids, current_date,
                  shows_processed, processing_done, calls >>

\* lines 96-151: a show with episodes left goes on to refresh or search.
SelectShow ==
  /\ Candidate
  /\ monitored_missing_episodes' =
       FilterEpisodes(shows_with_missing[idx'], SKIP_FUTURE_EPISODES, current_date)
  /\ monitored_missing_episodes' # <<>>
  /\ pc' = IF SKIP_SERIES_REFRESH THEN "search" ELSE "refresh"
  /\ call' = NoCall
  /\ UNCHANGED << config, upstream, store, result, shows_with_missing,
                  processed_missing_ids, current_date,
                  shows_processed, processing_done, calls >>

\* A refresh whose failure is not acted on.
RefreshSeriesIgnored ==
  /\ pc = "refresh"
  /\ \E refresh_res \in BOOLEAN :
       /\ call' = Call("refresh", series_id, refresh_res, <<>>)
       /\ calls' = Count(IF refresh_res THEN "refresh_ok" ELSE "refresh_failed")
       /\ pc' = "search"
  /\ UNCHANGED << config, upstream, store, result, locals >>

\* lines 143-149: refresh_series answers success or failure.
RefreshSeries ==
  /\ pc = "refresh"
  /\ \E refresh_res \in BOOLEAN :
       /\ call' = Call("refresh", series_id, refresh_res, <<>>)
       /\ calls' = Count(IF refresh_res THEN "refresh_ok" ELSE "refresh_failed")
       /\ pc' = IF refresh_res THEN "search" ELSE "loop"
  /\ UNCHANGED << config, upstream, store, result, locals >>

\* A search that reports work done whatever the answer.
EpisodeSearchAlwaysDone ==
  /\ pc = "search"
  /\ \E search_res \in BOOLEAN :
       /\ call' = Call("search", series_id, search_res,
                       EpisodeIds(monitored_missing_episodes))
       /\ calls' = Count(IF search_res THEN "search_ok" ELSE "search_failed")
       /\ processing_done' = TRUE
       /\ pc' = IF search_res THEN "save" ELSE "loop"
  /\ UNCHANGED << config, upstream, store, result, shows_with_missing,
                  processed_missing_ids, shows_processed, current_date, idx,
                  monitored_missing_episodes >>

\* lines 154-162: one episode_search_episodes call for the show.
EpisodeSearch ==
  /\ pc = "search"
  /\ \E search_res \in BOOLEAN :
       /\ call' = Call("search", series_id, search_res,
                       EpisodeIds(monitored_missing_episodes))
       /\ calls' = Count(IF search_res THEN "search_ok" ELSE "search_failed")
       /\ processing_done' = (IF search_res THEN TRUE ELSE processing_done)
       /\ pc' = IF search_res THEN "save" ELSE "loop"
  /\ UNCHANGED << config, upstream, store, result, shows_with_missing,
                  processed_missing_ids, shows_processed, current_date, idx,
                  monitored_missing_episodes >>

\* A save that truncates the file at once.
MarkProcessedTruncating ==
  /\ pc = "save"
  /\ store' = truncate_processed_list(save_processed_id(store, series_id))
  /\ shows_processed' = shows_processed + 1
  /\ call' = Call("save", series_id, TRUE, <<>>)
  /\ calls' = [calls EXCEPT !["save"] = @ + 1, !["truncate"] = @ + 1]
  /\ pc' = "loop"
  /\ UNCHANGED << config, upstream, result, shows_with_missing,
                  processed_missing_ids, processing_done, current_date, idx,
                  monitored_missing_episodes >>

\* A save that never reaches the file.
MarkProcessedNotSaved ==
  /\ pc = "save"
  /\ store' = store
  /\ shows_processed' = shows_processed + 1
  /\ call' = Call("save", series_id, TRUE, <<>>)
  /\ calls' = Count("save")
  /\ pc' = "loop"
  /\ UNCHANGED << config, upstream, result, shows_with_missing,
                  processed_missing_ids, processing_done, current_date, idx,
                  monitored_missing_episodes >>

\* A save that is not counted against the quota.
MarkProcessedUncounted ==
  /\ pc = "save"
  /\ store' = save_processed_id(store, series_id)
  /\ call' = Call("save", series_id, TRUE, <<>>)
  /\ calls' = Count("save")
  /\ pc' = "loop"
  /\ UNCHANGED << config, upstream, result, shows_with_missing,
                  processed_missing_ids, shows_processed, processing_done,
                  current_date, idx, monitored_missing_episodes >>

\* lines 164-167
MarkProcessed ==
  /\ pc = "save"
  /\ store' = save_processed_id(store, series_id)
  /\ shows_processed' = shows_processed + 1
  /\ call' = Call("save", series_id, TRUE, <<>>)
  /\ calls' = Count("save")
  /\ pc' = "loop"
  /\ UNCHANGED << config, upstream, result, shows_with_missing,
                  processed_missing_ids, processing_done, current_date, idx,
                  monitored_missing_episodes >>

\* An end of cycle that truncates only after a successful search.
FinishCycleTruncateIfDone ==
  /\ pc = "loop"
  /\ \/ idx = Len(shows_with_missing)
     \/ QuotaReached
  /\ store' = IF processing_done THEN truncate_processed_list(store) ELSE store
  /\ call' = IF processing_done THEN Call("truncate", 0, TRUE, <<>>) ELSE NoCall
  /\ calls' = IF processing_done THEN Count("truncate") ELSE calls
  /\ Return(processing_done)
  /\ UNCHANGED << config, upstream, locals >>

\* lines 78-80 and 169-172: the loop ends, the list is truncated, the cycle returns.
FinishCycle ==
  /\ pc = "loop"
  /\ \/ idx = Len(shows_with_missing)
     \/ QuotaReached
  /\ store' = truncate_processed_list(store)
  /\ call' = Call("truncate", 0, TRUE, <<>>)
  /\ calls' = Count("truncate")
  /\ Return(processing_done)
  /\ UNCHANGED << config, upstream, locals >>

Next ==
  \/ ReturnQuotaDisabled
  \/ ReturnNoShows
  \/ ReturnNoMonitored
  \/ EnterLoop
  \/ SkipNoId
  \/ SkipProcessed
  \/ SkipNoMonitoredEpisodes
  \/ SkipAllFuture
  \/ SelectShow
  \/ RefreshSeries
  \/ EpisodeSearch
  \/ MarkProcessed
  \/ FinishCycle

Spec == Init /\ [][Next]_vars

\* ------------------------------------------------ the episode filters
\* Cycles over one monitored series whose missingEpisodes ranges over
\* every list of up to MaxEpisodes episodes, each with any monitored
\* flag and any air date; the i-th episode has the id 9 + i.
MaxEpisodes == 2

AirDates ==
  {NoDate, EmptyDate, JunkDate} \cup { IsoDate(d, z) : d \in Days, z \in {"Z", "+00:00"} }

EpisodeInputs ==
  UNION { { [i \in 1..n |-> Episode(9 + i, f[i][1], f[i][2])] :
              f \in [1..n -> Flags \X AirDates] } : n \in 0..MaxEpisodes }

InitFilter ==
  /\ HUNT_MISSING_SHOWS = 1
  /\ MONITORED_ONLY = FALSE
  /\ RANDOM_MISSING = FALSE
  /\ SKIP_FUTURE_EPISODES \in BOOLEAN
  /\ SKIP_SERIES_REFRESH \in BOOLEAN
  /\ upstream \in { << [id |-> 1, monitored |-> "True", missingEpisodes |-> eps] >> :
                      eps \in EpisodeInputs }
  /\ store = <<>>
  /\ retention = TruncateCap
  /\ pc = "idle"
  /\ InitLocals
  /\ result = FALSE
  /\ call = NoCall
  /\ calls = NoCalls

NextFilter ==
  \/ ReturnNoShows
  \/ EnterLoop
  \/ SkipProcessed
  \/ SkipNoMonitoredEpisodes
  \/ SkipAllFuture
  \/ SelectShow
  \/ RefreshSeries
  \/ EpisodeSearch
  \/ MarkProcessed
  \/ FinishCycle

SpecFilter == InitFilter /\ [][NextFilter]_vars

\* ------------------------------------------------------------ properties
\* The commands a cycle issues for a series.
Commands == {"refresh", "search", "save"}

\* The file as the cycle found it: this cycle's saves are its last lines
\* until the cycle truncates it.
StoreAtStart == SubSeq(store, 1, Len(store) - calls["save"])

\* An episode the configured episode filters let through today.
Wanted(ep) ==
  /\ ep.monitored = "True"
  /\ SKIP_FUTURE_EPISODES =>
       ~(ep.airDateUtc.kind = "iso" /\ ep.airDateUtc.day > current_date)

HasWanted(s) == \E i \in 1..Len(s.missingEpisodes) : Wanted(s.missingEpisodes[i])

\* An entry of the list with an id the loaded set lacks and an episode to search.
Eligible(s) == s.id # 0 /\ s.id \notin processed_missing_ids /\ HasWanted(s)

EligibleCount ==
  Cardinality({ i \in 1..Len(shows_with_missing) : Eligible(shows_with_missing[i]) })

Min(a, b) == IF a <= b THEN a ELSE b

NoFailure == calls["refresh_failed"] = 0 /\ calls["search_failed"] = 0

\* C1: no refresh or search command is issued for a series id that an
\* earlier cycle saved and that is still in the file when the cycle starts.
Idempotence ==
  call.op \in {"refresh", "search"} => call.id \notin Range(StoreAtStart)

\* A cycle has passed over an entry whose id an earlier cycle saved.
IdempotenceWitness ==
  /\ pc = "loop"
  /\ idx >= 1
  /\ call = NoCall
  /\ show.id \in Range(StoreAtStart)
  /\ show.monitored = "True"
  /\ show.missingEpisodes = Aired

\* C2 as stated: with a quota N > 0 and M eligible entries whose refresh and
\* search all succeed, Min(M, N) ids are saved and the cycle returns true.
QuotaBoundaryAsStated ==
  (pc = "returned" /\ HUNT_MISSING_SHOWS > 0 /\ NoFailure) =>
    (calls["save"] = Min(EligibleCount, HUNT_MISSING_SHOWS) /\ result = TRUE)

\* C2: with a quota N > 0 and M eligible entries whose refresh and search all
\* succeed, Min(M, N) ids are saved, and the cycle returns true iff M >= 1.
QuotaBoundary ==
  (pc = "returned" /\ HUNT_MISSING_SHOWS > 0 /\ NoFailure) =>
    (calls["save"] = Min(EligibleCount, HUNT_MISSING_SHOWS) /\ (result <=> EligibleCount >= 1))

\* A cycle that stopped at its quota with an eligible entry left over.
QuotaBoundaryWitness ==
  /\ pc = "returned"
  /\ NoFailure
  /\ HUNT_MISSING_SHOWS >= 1
  /\ EligibleCount > HUNT_MISSING_SHOWS
  /\ calls["save"] = HUNT_MISSING_SHOWS
  /\ result = TRUE

\* C3 as stated: every cycle has called truncate exactly once when it returns.
TruncateEveryCycle == pc = "returned" => calls["truncate"] = 1

\* C3: a cycle that reaches the selection loop calls truncate exactly once,
\* as its last call before it returns; a cycle that returns early calls neither
\* load nor truncate.
TruncateAfterLoop ==
  /\ calls["load"] <= 1
  /\ pc = "returned" => calls["truncate"] = calls["load"]
  /\ pc # "returned" => calls["truncate"] = 0

\* A cycle that processed nothing in its loop and truncated all the same.
TruncateAfterLoopWitness ==
  /\ pc = "returned"
  /\ call.op = "truncate"
  /\ calls["truncate"] = 1
  /\ calls["save"] = 0
  /\ result = FALSE

\* C4: with a quota <= 0 no refresh, search or save is ever issued, the file
\* stays as it was, and every cycle returns false.
DisabledQuotaNoOp ==
  HUNT_MISSING_SHOWS <= 0 =>
    /\ call.op \notin Commands
    /\ calls["refresh_ok"] + calls["refresh_failed"] = 0
    /\ calls["search_ok"] + calls["search_failed"] = 0
    /\ calls["save"] = 0
    /\ store = <<>>
    /\ result = FALSE

\* A disabled cycle has returned although the API offers a searchable series.
DisabledQuotaWitness ==
  /\ HUNT_MISSING_SHOWS <= 0
  /\ pc = "returned"
  /\ Len(upstream) >= 1
  /\ upstream[1] = [id |-> 1, monitored |-> "True", missingEpisodes |-> Aired]

\* C5: a cycle returns true iff a search command succeeded in it, which is
\* the case iff an id was saved in it.
ResultIffSearched ==
  pc = "returned" =>
    /\ result <=> calls["search_ok"] > 0
    /\ result <=> calls["save"] > 0

\* A cycle returned true after one failed and one successful search.
ResultIffSearchedWitness ==
  /\ pc = "returned"
  /\ result = TRUE
  /\ calls["search_ok"] = 1
  /\ calls["search_failed"] = 1

\* C6: no refresh, search or save is issued for a series whose id is in the
\* set loaded at the start of the cycle, and passing over such an entry
\* issues no call and leaves the quota counter and the file alone.
NoReselect ==
  /\ [](call.op \in Commands => call.id \notin processed_missing_ids)
  /\ [][(/\ pc = "loop"
         /\ idx' = idx + 1
         /\ shows_with_missing[idx'].id \in processed_missing_ids)
        => (/\ pc' = "loop"
            /\ call' = NoCall
            /\ calls' = calls
            /\ shows_processed' = shows_processed
            /\ store' = store)]_vars

\* A cycle with quota 1 passed over a processed first entry and saved the second.
NoReselectWitness ==
  /\ pc = "returned"
  /\ HUNT_MISSING_SHOWS = 1
  /\ Len(shows_with_missing) = 2
  /\ shows_with_missing[1].id \in processed_missing_ids
  /\ shows_with_missing[1].missingEpisodes = Aired
  /\ calls["save"] = 1

\* C7: with MONITORED_ONLY, every refresh, search and save is for an entry
\* whose monitored flag is exactly true.
MonitoredOnlySelected ==
  (MONITORED_ONLY /\ call.op \in Commands) =>
    (show.monitored = "True" /\ call.id = show.id)

\* With MONITORED_ONLY a series was saved while the API also reported a
\* series whose flag is not true.
MonitoredOnlyWitness ==
  /\ MONITORED_ONLY
  /\ call.op = "save"
  /\ \E i \in 1..Len(upstream) : upstream[i].monitored # "True" /\ upstream[i].id # 0

\* C8: a failed refresh or search saves nothing, leaves the quota counter
\* alone and returns to the head of the loop, where the next entry is taken.
FailureIsLocal ==
  [][(\/ calls'["refresh_failed"] = calls["refresh_failed"] + 1
      \/ calls'["search_failed"] = calls["search_failed"] + 1)
     => (/\ pc' = "loop"
         /\ idx' = idx
         /\ shows_with_missing' = shows_with_missing
         /\ store' = store
         /\ shows_processed' = shows_processed
         /\ calls'["save"] = calls["save"])]_vars

\* A series was saved in a cycle in which an earlier command had failed.
FailureIsLocalWitness ==
  /\ call.op = "save"
  /\ calls["refresh_failed"] + calls["search_failed"] >= 1
  /\ idx = 2

\* An episode the future-date filter has to keep.
KeptByDate(ep) ==
  \/ ep.airDateUtc.kind \in {"None", "empty", "junk"}
  \/ ep.airDateUtc.kind = "iso" /\ ep.airDateUtc.day <= current_date

\* C9: with SKIP_FUTURE_EPISODES, the episodes left of a show's monitored
\* episodes are, in their order, those without a parseable air date and those
\* whose air day is not after the current date.
FutureFilterKeeps ==
  [][(/\ pc = "loop"
      /\ idx' = idx + 1
      /\ SKIP_FUTURE_EPISODES
      /\ shows_with_missing[idx'].id # 0
      /\ shows_with_missing[idx'].id \notin processed_missing_ids
      /\ \E i \in 1..Len(shows_with_missing[idx'].missingEpisodes) :
           shows_with_missing[idx'].missingEpisodes[i].monitored = "True")
     => monitored_missing_episodes' =
          SelectSeq(shows_with_missing[idx'].missingEpisodes,
                    LAMBDA ep : ep.monitored = "True" /\ KeptByDate(ep))]_vars

\* The filter kept an episode airing today and dropped one airing later.
FutureFilterWitness ==
  /\ pc \in {"refresh", "search"}
  /\ SKIP_FUTURE_EPISODES
  /\ Len(show.missingEpisodes) = 2
  /\ show.missingEpisodes[1].monitored = "True"
  /\ show.missingEpisodes[1].airDateUtc.kind = "iso"
  /\ show.missingEpisodes[1].airDateUtc.day > current_date
  /\ show.missingEpisodes[2].monitored = "True"
  /\ show.missingEpisodes[2].airDateUtc = IsoDate(current_date, "Z")
  /\ monitored_missing_episodes = << show.missingEpisodes[2] >>

\* C10: an entry left without an episode by the episode filters is passed
\* over without a call, a save or a count against the quota, and a cycle
\* whose entries are all such returns false.
EmptyShowSkipped ==
  /\ [][(/\ pc = "loop"
         /\ idx' = idx + 1
         /\ shows_with_missing[idx'].id # 0
         /\ shows_with_missing[idx'].id \notin processed_missing_ids
         /\ ~HasWanted(shows_with_missing[idx']))
        => (/\ pc' = "loop"
            /\ call' = NoCall
            /\ calls' = calls
            /\ shows_processed' = shows_processed
            /\ store' = store)]_vars
  /\ []((/\ pc = "returned"
         /\ calls["load"] = 1
         /\ \A i \in 1..Len(shows_with_missing) : ~HasWanted(shows_with_missing[i]))
        => (result = FALSE /\ calls = [NoCalls EXCEPT !["load"] = 1, !["truncate"] = 1]))

\* A cycle returned false over a series without a monitored episode and a
\* series whose monitored episodes all air in the future.
EmptyShowWitness ==
  /\ pc = "returned"
  /\ calls["load"] = 1
  /\ SKIP_FUTURE_EPISODES
  /\ Len(shows_with_missing) = 2
  /\ shows_with_missing[1].missingEpisodes = Unwanted
  /\ shows_with_missing[2].missingEpisodes = Upcoming
  /\ ~HasWanted(shows_with_missing[2])
  /\ result = FALSE

\* C11: every search command carries, in one non-empty list and in the order
\* of missingEpisodes, the ids of exactly the episodes of its show that are
\* monitored and, with SKIP_FUTURE_EPISODES, not dated after the current
\* date; there is at most one search per entry taken from the list.
SearchArgument ==
  call.op = "search" =>
    LET qualifying == SelectSeq(show.missingEpisodes, Wanted)
    IN  /\ call.id = show.id
        /\ call.eps = [i \in 1..Len(qualifying) |-> qualifying[i].id]
        /\ call.eps # <<>>
        /\ calls["search_ok"] + calls["search_failed"] <= idx

\* Without SKIP_FUTURE_EPISODES one search carried both episodes of a show,
\* the first of them dated in the future.
SearchArgumentWitness ==
  /\ call.op = "search"
  /\ ~SKIP_FUTURE_EPISODES
  /\ call.eps = << 10, 11 >>
  /\ show.missingEpisodes[1].airDateUtc.kind = "iso"
  /\ show.missingEpisodes[1].airDateUtc.day > current_date

\* No series comes out of the fetch and the monitored-only filter.
NothingFetched ==
  \/ upstream = <<>>
  \/ MONITORED_ONLY /\ \A i \in 1..Len(upstream) : upstream[i].monitored # "True"

\* C12: when the fetch is empty or MONITORED_ONLY filters every fetched
\* series out, the cycle returns false with no refresh, no search and no
\* save; every return that precedes the loop is such.
EarlyExitNoOp ==
  /\ [](NothingFetched =>
          /\ pc \in {"idle", "returned"}
          /\ call = NoCall
          /\ calls = NoCalls
          /\ store = <<>>
          /\ result = FALSE)
  /\ [][(pc \in {"idle", "returned"} /\ pc' = "returned")
        => (/\ result' = FALSE
            /\ call' = NoCall
            /\ calls' = NoCalls
            /\ store' = store)]_vars

\* With MONITORED_ONLY and a quota, a cycle returned over two series with ids
\* and episodes to search, neither of them monitored.
EarlyExitWitness ==
  /\ pc = "returned"
  /\ HUNT_MISSING_SHOWS > 0
  /\ MONITORED_ONLY
  /\ Len(upstream) = 2
  /\ upstream[1] = [id |-> 1, monitored |-> "False", missingEpisodes |-> Aired]
  /\ upstream[2] = [id |-> 2, monitored |-> "None", missingEpisodes |-> Aired]

\* C13 as stated: with a quota N > 0 the quota counter equals, at every
\* point of the cycle, the number of successful searches and the number of
\* saves so far, never exceeds N, and no refresh or search is issued once it
\* has reached N.
QuotaCounterAsStated ==
  HUNT_MISSING_SHOWS > 0 =>
    /\ shows_processed = calls["search_ok"]
    /\ shows_processed = calls["save"]
    /\ shows_processed <= HUNT_MISSING_SHOWS
    /\ call.op \in {"refresh", "search"} => shows_processed < HUNT_MISSING_SHOWS

\* C13: with a quota N > 0 the quota counter never exceeds N and no refresh
\* or search is issued once it has reached N; at the loop head and at return
\* it equals the number of saves and of successful searches so far, and
\* between a successful search and the save and increment that follow it
\* the number of successful searches is one ahead.
QuotaCounter ==
  HUNT_MISSING_SHOWS > 0 =>
    /\ shows_processed = calls["save"]
    /\ calls["search_ok"] = shows_processed + (IF pc = "save" THEN 1 ELSE 0)
    /\ shows_processed <= HUNT_MISSING_SHOWS
    /\ call.op \in {"refresh", "search"} => shows_processed < HUNT_MISSING_SHOWS

\* After a failed refresh of the first entry the second was saved and the
\* counter stands at the quota.
QuotaCounterWitness ==
  /\ pc = "loop"
  /\ HUNT_MISSING_SHOWS = 1
  /\ shows_processed = 1
  /\ idx = 2
  /\ calls["refresh_failed"] = 1
  /\ calls["save"] = 1

\* C14: without SKIP_SERIES_REFRESH the call before a search is the
\* successful refresh of the same series; with it no refresh is ever issued
\* and a search follows the selection of its show directly; the call before
\* a save is the successful search for the same series.
CommandOrder ==
  /\ [](SKIP_SERIES_REFRESH =>
          call.op # "refresh" /\ calls["refresh_ok"] + calls["refresh_failed"] = 0)
  /\ [][call'.op = "search" =>
          IF SKIP_SERIES_REFRESH
          THEN call = NoCall /\ pc = "search" /\ idx' = idx
          ELSE call = Call("refresh", call'.id, TRUE, <<>>) /\ idx' = idx]_vars
  /\ [][call'.op = "save" =>
          /\ call.op = "search"
          /\ call.ok
          /\ call.id = call'.id
          /\ idx' = idx]_vars

\* The second series of a cycle was saved after its refresh and search.
CommandOrderWitness ==
  /\ call.op = "save"
  /\ ~SKIP_SERIES_REFRESH
  /\ calls["refresh_ok"] = 2
  /\ calls["search_ok"] = 2
  /\ calls["save"] = 2

\* The entries among the first n of the list that are eligible.
EligibleUpTo(n) == { i \in 1..n : Eligible(shows_with_missing[i]) }

\* C15: without RANDOM_MISSING the list the loop walks is the fetched list in
\* API order, less the series MONITORED_ONLY drops; the loop takes its
\* entries one by one in that order, every command is for the entry taken
\* last, and every eligible entry taken so far was attempted, so the saved
\* series are the earliest eligible ones whose commands succeed.
ApiOrder ==
  /\ []((~RANDOM_MISSING /\ calls["load"] = 1) =>
          shows_with_missing =
            SelectSeq(upstream, LAMBDA s : MONITORED_ONLY => s.monitored = "True"))
  /\ [](call.op \in Commands => call.id = shows_with_missing[idx].id)
  /\ [](pc = "loop" =>
          Cardinality(EligibleUpTo(idx)) =
            calls["save"] + calls["refresh_failed"] + calls["search_failed"])
  /\ [][pc \notin {"idle", "returned"} =>
          /\ idx' \in {idx, idx + 1}
          /\ shows_with_missing' = shows_with_missing]_vars

\* In API order and with quota 1, the first of two searchable series was the
\* one saved.
ApiOrderWitness ==
  /\ ~RANDOM_MISSING
  /\ pc = "returned"
  /\ HUNT_MISSING_SHOWS = 1
  /\ upstream = << [id |-> 2, monitored |-> "True", missingEpisodes |-> Aired],
                   [id |-> 1, monitored |-> "True", missingEpisodes |-> Aired] >>
  /\ processed_missing_ids = {}
  /\ NoFailure
  /\ store = << 2 >>

\* ------------------------------------------------- repeated cycles
\* Cycles run one after another with a quota of at least 1 against an API
\* whose list does not change and whose fetch, refresh and search always
\* succeed, over a file that retains as many lines as the list has entries,
\* so that truncate never drops an id.
FetchEmpty == upstream = <<>> /\ ReturnNoShows

RefreshSucceeds == RefreshSeries /\ call'.ok

SearchSucceeds == EpisodeSearch /\ call'.ok

InitProgress ==
  /\ HUNT_MISSING_SHOWS \in 1..MaxQuota
  /\ MONITORED_ONLY \in BOOLEAN
  /\ RANDOM_MISSING \in BOOLEAN
  /\ SKIP_FUTURE_EPISODES \in BOOLEAN
  /\ SKIP_SERIES_REFRESH \in BOOLEAN
  /\ upstream \in SeqsUpTo(Series, MaxShows)
  /\ store = <<>>
  /\ retention = MaxShows
  /\ pc = "idle"
  /\ InitLocals
  /\ result = FALSE
  /\ call = NoCall
  /\ calls = NoCalls

NextProgress ==
  \/ FetchEmpty
  \/ ReturnNoMonitored
  \/ EnterLoop
  \/ SkipNoId
  \/ SkipProcessed
  \/ SkipNoMonitoredEpisodes
  \/ SkipAllFuture
  \/ SelectShow
  \/ RefreshSucceeds
  \/ SearchSucceeds
  \/ MarkProcessed
  \/ FinishCycle

\* The caller starts cycle after cycle and every collaborator call returns.
SpecProgress == InitProgress /\ [][NextProgress]_vars /\ WF_vars(NextProgress)

\* Cycles have nothing left to do: no search, no save, a false result, and
\* the id of every series that passes the filters today is in the file.
Quiescent ==
  /\ calls["search_ok"] + calls["search_failed"] = 0
  /\ calls["save"] = 0
  /\ pc = "returned" => result = FALSE
  /\ \A i \in 1..Len(upstream) :
       (/\ upstream[i].id # 0
        /\ MONITORED_ONLY => upstream[i].monitored = "True"
        /\ HasWanted(upstream[i]))
       => upstream[i].id \in Range(store)

\* C16: no cycle drops an id from the file; a cycle that starts with an
\* eligible unprocessed entry saves at least one id, every id saved is new to
\* the file, and from some cycle on the cycles are quiescent for good.
ForwardProgress ==
  /\ [][Range(store) \subseteq Range(store')]_vars
  /\ []((pc = "returned" /\ EligibleCount >= 1) => calls["save"] >= 1)
  /\ [](call.op = "save" =>
          call.id \notin processed_missing_ids /\ call.id \notin Range(StoreAtStart))
  /\ <>[]Quiescent

\* With quota 1 both series are in the file and a further cycle has walked
\* the list without a search and returned false.
ForwardProgressWitness ==
  /\ pc = "returned"
  /\ HUNT_MISSING_SHOWS = 1
  /\ Range(store) = {1, 2}
  /\ calls = [NoCalls EXCEPT !["load"] = 1, !["truncate"] = 1]
  /\ result = FALSE

\* C17: in a cycle that reaches the loop, load is the first call and is made
\* once, every save comes after it and before truncate, and truncate is made
\* once, as the last call of the cycle.
StoreAccessOrder ==
  /\ [](calls["load"] <= 1 /\ calls["truncate"] <= 1)
  /\ []((calls["save"] >= 1 \/ calls["truncate"] >= 1) => calls["load"] = 1)
  /\ [](calls["truncate"] = 1 => (pc = "returned" /\ call.op = "truncate"))
  /\ []((pc = "returned" /\ calls["load"] = 1) => calls["truncate"] = 1)
  /\ [][call'.op = "load" => calls' = [NoCalls EXCEPT !["load"] = 1]]_vars
  /\ [][call'.op = "save" => (calls["load"] = 1 /\ calls'["truncate"] = 0)]_vars

\* A cycle has loaded, saved twice and truncated.
StoreAccessWitness ==
  /\ pc = "returned"
  /\ call.op = "truncate"
  /\ calls["load"] = 1
  /\ calls["save"] = 2
  /\ calls["truncate"] = 1

\* C18: within a cycle each series id is searched and saved at most once,
\* also when an id occurs in several entries of the list: the saves so far
\* are no more than the distinct ids among the entries taken so far.
SavedOncePerCycle ==
  calls["save"] <= Cardinality({ shows_with_missing[i].id : i \in 1..idx })

\* ------------------------------------------------------ termination
\* The cycle's steps are taken as long as one is possible: the caller
\* calls process_missing_episodes and every collaborator call returns.
SpecFair == Init /\ [][Next]_vars /\ WF_vars(Next)

InCycle == pc \notin {"idle", "returned"}

Refreshes == calls["refresh_ok"] + calls["refresh_failed"]

Searches == calls["search_ok"] + calls["search_failed"]

\* C19: every cycle terminates: the position in the list only moves forward
\* by one entry at a time and stays within the fetched list, a cycle issues
\* at most one refresh and one search per candidate entry visited (so the
\* searches are bounded by the candidates, the successful ones also by the
\* quota), and a cycle that has started returns.
CycleTerminates ==
  /\ [][InCycle /\ idx' # idx => idx' = idx + 1 /\ pc = "loop"]_vars
  /\ [](/\ idx <= Len(shows_with_missing)
        /\ Len(shows_with_missing) <= Len(upstream)
        /\ Refreshes <= Cardinality(EligibleUpTo(idx))
        /\ Searches <= Cardinality(EligibleUpTo(idx))
        /\ calls["search_ok"] >= 1 => calls["search_ok"] <= HUNT_MISSING_SHOWS)
  /\ [](InCycle => <>(pc = "returned"))

\* A cycle has returned after more searches than its quota.
CycleTerminatesWitness ==
  /\ pc = "returned"
  /\ HUNT_MISSING_SHOWS >= 1
  /\ Searches > HUNT_MISSING_SHOWS
  /\ calls["search_failed"] >= 1

====
